---- MODULE Spec2Model ----
(***************************************************************************)
(* Recommendation_Generator: the resilient model client                    *)
(* (recommender/client.py, call_ollama_sync), the recommendation parser    *)
(* (recommender/parse.py, parse_recommendations), the input validator      *)
(* (recommender/schemas.py, validate_and_clean_likes), the prompt builder  *)
(* (recommender/prompt.py, build_prompt) and the facade that chains them.  *)
(*                                                                         *)
(* Strings are sequences of one-character tokens, so that emptiness,       *)
(* length, stripping and case folding are computed and not assumed.        *)
(***************************************************************************)
EXTENDS Integers, Sequences, FiniteSets, TLC

VARIABLES
    REQUESTS_RETRIES, \* config.REQUESTS_RETRIES, read once at import
    shapes,           \* which family of response bodies the backend stub answers with
    pc,               \* position of call_ollama_sync: "loop", "break", "returned", "raised", "idle"
    attempt,          \* loop variable of `for attempt in range(1, REQUESTS_RETRIES + 2)`, 0 before the loop
    last_exc,         \* local last_exc
    resp,             \* local resp, the response of the current attempt
    returned,         \* the value returned by call_ollama_sync
    raised,           \* the exception that left call_ollama_sync
    errors,           \* history: the error observed on each attempt made so far
    sleeps,           \* history: the time.sleep calls made so far
    text,             \* parse_recommendations: argument text
    expected,         \* parse_recommendations: argument expected
    recs,             \* parse_recommendations: local recs, every record parsed from the lines
    unique,           \* parse_recommendations: local unique, the list returned
    parse_pc,         \* position of parse_recommendations: "call", "done", "idle"
    likes,            \* validate_and_clean_likes: argument v
    validated,        \* validate_and_clean_likes: the list returned, or the error raised
    validate_pc,      \* position of validate_and_clean_likes: "call", "done", "idle"
    prompt_likes,     \* build_prompt: argument likes
    prompt_n,         \* build_prompt: argument n, given or left to its default
    prompt,           \* build_prompt: the string returned
    prompt_pc,        \* position of build_prompt: "call", "done", "idle"
    request,          \* Service Facade: the caller's payload and count
    response,         \* Service Facade: the response sent to the caller
    stages,           \* history: the components the facade has called for this request
    facade_pc,        \* position of the facade: "start", "validating", "prompting", "calling", "parsing", "done", "idle"
    running,          \* which of two concurrent calls of call_ollama_sync the variables above belong to
    parked            \* the locals of the other call, which is not running now

clientVars == <<REQUESTS_RETRIES, shapes, pc, attempt, last_exc, resp, returned, raised, errors, sleeps>>

parseVars == <<text, expected, recs, unique, parse_pc>>

validateVars == <<likes, validated, validate_pc>>

promptVars == <<prompt_likes, prompt_n, prompt, prompt_pc>>

facadeVars == <<request, response, stages, facade_pc>>

callVars == <<running, parked>>

vars == <<clientVars, parseVars, validateVars, promptVars, facadeVars, callVars>>

\* what a step of call_ollama_sync, of parse_recommendations, of the validator,
\* of build_prompt leaves alone
outsideClient == <<parseVars, validateVars, promptVars, facadeVars, callVars>>
outsideParse == <<clientVars, validateVars, promptVars, facadeVars, callVars>>
outsideValidate == <<clientVars, parseVars, promptVars, facadeVars, callVars>>
outsidePrompt == <<clientVars, parseVars, validateVars, facadeVars, callVars>>

----------------------------------------------------------------------------
(* Bounds *)

MaxRetries == 3

\* lines per text, the largest expected count, the length of the exhaustively enumerated lines
MaxLines == 3
MaxExpected == 3
MaxLineLen == 3

\* entries per exhaustively enumerated likes list
MaxLikesLen == 3

\* entries per likes list handed to build_prompt
MaxPromptLikes == 2

(* Program constants *)

\* REQUESTS_BACKOFF_S = 0.5 seconds, held in milliseconds
REQUESTS_BACKOFF_MS == 500

HTTP_OK == 200

----------------------------------------------------------------------------
(* Exceptions *)

NoExc == [kind |-> "None", status |-> 0, at |-> 0]

\* the requests.RequestException caught on attempt k
RequestException(k) == [kind |-> "RequestException", status |-> 0, at |-> k]

\* RuntimeError(f"Ollama returned status {resp.status_code}: ...") built on attempt k
StatusError(k, status) == [kind |-> "StatusError", status |-> status, at |-> k]

\* RuntimeError("Could not extract text from Ollama response") built on attempt k
ExtractError(k) == [kind |-> "ExtractError", status |-> HTTP_OK, at |-> k]

\* ValueError("Empty response from Ollama") raised on attempt k
EmptyResponse(k) == [type |-> "ValueError", wraps |-> [kind |-> "EmptyResponse", status |-> HTTP_OK, at |-> k]]

\* RuntimeError(f"Failed to get response from Ollama after retries: {last_exc}")
FailedAfterRetries(exc) == [type |-> "RuntimeError", wraps |-> exc]

NotRaised == [type |-> "None", wraps |-> NoExc]

----------------------------------------------------------------------------
(* Responses of the backend, as requests.post hands them to the client *)

Absent == [t |-> "absent", v |-> <<>>]
NonStr == [t |-> "nonstr", v |-> <<>>]
Str(s) == [t |-> "str", v |-> s]

\* a field of a JSON object: missing, present with a non-string value, "" or a text
FieldVals(s) == {Absent, NonStr, Str(<<>>), Str(s)}

NoMessage == [t |-> "absent", content |-> Absent]
Messages ==
    {NoMessage, [t |-> "nondict", content |-> Absent]}
        \cup {[t |-> "dict", content |-> c] : c \in FieldVals(<<"m">>)}

NoFirst == [t |-> "nondict", text |-> Absent, message |-> NoMessage]
Firsts ==
    {NoFirst}
        \cup {[t |-> "dict", text |-> x, message |-> m] : x \in FieldVals(<<"c">>), m \in Messages}

NoChoices == [t |-> "absent", first |-> NoFirst]
Choices ==
    {NoChoices, [t |-> "nonlist", first |-> NoFirst], [t |-> "empty", first |-> NoFirst]}
        \cup {[t |-> "list", first |-> f] : f \in Firsts}

EmptyDict ==
    [text |-> Absent, response |-> Absent, generated |-> Absent, output |-> Absent,
     choices |-> NoChoices]

\* resp.json() raised ValueError
InvalidJson == [kind |-> "invalid", obj |-> EmptyDict, str |-> <<>>]
\* resp.json() is a list, a number, a boolean or null
OtherJson == [kind |-> "other", obj |-> EmptyDict, str |-> <<>>]
JsonStr(s) == [kind |-> "str", obj |-> EmptyDict, str |-> s]
JsonDict(d) == [kind |-> "dict", obj |-> d, str |-> <<>>]

AllDicts ==
    [text : FieldVals(<<"t">>), response : FieldVals(<<"r">>),
     generated : FieldVals(<<"g">>), output : FieldVals(<<"o">>), choices : Choices]

AllJson ==
    {InvalidJson, OtherJson, JsonStr(<<>>), JsonStr(<<"s">>)} \cup {JsonDict(d) : d \in AllDicts}

\* the response dialects the retry loop is exercised with
FewDicts ==
    {EmptyDict,
     [EmptyDict EXCEPT !.text = Str(<<"t">>)],
     [EmptyDict EXCEPT !.text = Str(<<>>)],
     [EmptyDict EXCEPT !.response = Str(<<"r">>), !.text = NonStr],
     [EmptyDict EXCEPT !.choices = [t |-> "list", first |->
         [t |-> "dict", text |-> Str(<<"c">>), message |-> NoMessage]]],
     [EmptyDict EXCEPT !.choices = [t |-> "list", first |->
         [t |-> "dict", text |-> Absent, message |-> [t |-> "dict", content |-> Str(<<>>)]]]]}

FewJson ==
    {InvalidJson, OtherJson, JsonStr(<<>>), JsonStr(<<"s">>)} \cup {JsonDict(d) : d \in FewDicts}

\* the texts an end-to-end request is answered with: nothing, prose without
\* a numbered line, one numbered recommendation
Prose == [i \in 1..60 |-> "a"]
Numbered == <<"1", ".", " ", "a", "b", " ", "EM", " ", "x">>
TextJson == {InvalidJson, JsonStr(<<>>), JsonStr(Prose), JsonStr(Numbered)}

JsonOf(family) ==
    IF family = "all" THEN AllJson ELSE IF family = "texts" THEN TextJson ELSE FewJson

\* resp.text
Bodies == {<<>>, <<"b">>}

Statuses == {100, 200, 204, 301, 404, 500, 599}

NoResp == [status_code |-> 0, json |-> InvalidJson, text |-> <<>>]

\* two answers, for the runs of two calls side by side
TwoStatuses == {200, 404, 500}
TwoJson == {InvalidJson, JsonStr(<<"s">>)}

Responses(family) ==
    IF family = "two"
    THEN [status_code : TwoStatuses, json : TwoJson, text : Bodies]
    ELSE [status_code : Statuses, json : JsonOf(family), text : Bodies]

----------------------------------------------------------------------------
(* call_ollama_sync: helpers *)

\* range(1, REQUESTS_RETRIES + 2)
AttemptRangeShort(retries) == 1 .. retries
AttemptRangeWide(retries) == 1 .. (retries + 2)
AttemptRange(retries) == 1 .. (retries + 1)

\* 400 <= resp.status_code < 500
BelowServerError(status) == status < 500
IsServerError(status) == 500 <= status /\ status < 600
IsClientError(status) == 400 <= status /\ status < 500

\* if attempt <= REQUESTS_RETRIES
SleepsFromSecond(k, retries) == 1 < k /\ k <= retries
SleepsAfter(k, retries) == k <= retries

\* REQUESTS_BACKOFF_S * attempt
ConstantBackoff(k) == REQUESTS_BACKOFF_MS
Backoff(k) == REQUESTS_BACKOFF_MS * k

\* time.sleep(REQUESTS_BACKOFF_S * attempt), guarded by attempt <= REQUESTS_RETRIES
Sleep(log, k, retries) ==
    IF SleepsAfter(k, retries)
    THEN Append(log, [after |-> k, duration |-> Backoff(k)])
    ELSE log

\* last_exc = <the error of this attempt>
KeepFirstExc(old, new) == IF old = NoExc THEN new ELSE old
AssignLastExc(old, new) == new

\* for key in ("text", "response", "generated", "output")
ReorderedKeys == <<"response", "text", "generated", "output">>
TopLevelKeys == <<"text", "response", "generated", "output">>

\* if key in data and isinstance(data[key], str)
IsStrField(f) == f.t = "str"

\* the first key of the loop whose value is a string, 0 when the loop ends without returning
FirstStrKey(d) ==
    LET hits == {i \in 1..Len(TopLevelKeys) : IsStrField(d[TopLevelKeys[i]])}
    IN  IF hits = {} THEN 0 ELSE CHOOSE i \in hits : \A j \in hits : i <= j

Return(s) == [kind |-> "return", text |-> s]
CountAsFailed == [kind |-> "none", text |-> <<>>]
RaiseEmpty == [kind |-> "raise", text |-> <<>>]
FallThrough == [kind |-> "none", text |-> <<>>]

\* the choices branch: data["choices"][0]["text"], then ["message"]["content"]
ExtractChoices(c) ==
    IF c.t = "list" /\ c.first.t = "dict"
    THEN IF IsStrField(c.first.text)
         THEN Return(c.first.text.v)
         ELSE IF c.first.message.t = "dict" /\ IsStrField(c.first.message.content)
              THEN Return(c.first.message.content.v)
              ELSE FallThrough
    ELSE FallThrough

\* the trailing `text = resp.text or ""` / `if text: return text`
ExtractBodyEvenEmpty(r) == Return(r.text)
ExtractBody(r) == IF r.text # <<>> THEN Return(r.text) ELSE FallThrough

\* the body of the loop after a 200 status: what the attempt returns or raises
ExtractText(r) ==
    IF r.json.kind = "invalid"
    THEN IF r.text = <<>> THEN RaiseEmpty ELSE Return(r.text)
    ELSE IF r.json.kind = "dict" /\ FirstStrKey(r.json.obj) # 0
    THEN Return(r.json.obj[TopLevelKeys[FirstStrKey(r.json.obj)]].v)
    ELSE IF r.json.kind = "dict" /\ ExtractChoices(r.json.obj.choices).kind = "return"
    THEN ExtractChoices(r.json.obj.choices)
    ELSE IF r.json.kind = "str"
    THEN Return(r.json.str)
    ELSE ExtractBody(r)

----------------------------------------------------------------------------
(* call_ollama_sync: the retry loop *)

InLoop == pc = "loop" /\ (attempt + 1) \in AttemptRange(REQUESTS_RETRIES)

\* requests.post raises requests.RequestException
RequestFails ==
    /\ InLoop
    /\ LET k == attempt + 1 IN
        /\ attempt' = k
        /\ last_exc' = AssignLastExc(last_exc, RequestException(k))
        /\ errors' = Append(errors, RequestException(k))
        /\ sleeps' = Sleep(sleeps, k, REQUESTS_RETRIES)
    /\ UNCHANGED <<REQUESTS_RETRIES, shapes, pc, resp, returned, raised>>
    /\ UNCHANGED outsideClient

\* requests.post answers with a status other than 200.  resp.json() is not
\* called on this path, so one JSON content stands for all of them.
StatusNot200 ==
    /\ InLoop
    /\ \E r \in Responses(shapes) :
        /\ r.status_code # HTTP_OK
        /\ r.json = InvalidJson
        /\ LET k == attempt + 1 IN
            /\ attempt' = k
            /\ resp' = r
            /\ last_exc' = AssignLastExc(last_exc, StatusError(k, r.status_code))
            /\ errors' = Append(errors, StatusError(k, r.status_code))
            /\ IF IsClientError(r.status_code)
               THEN pc' = "break" /\ sleeps' = sleeps
               ELSE pc' = pc /\ sleeps' = Sleep(sleeps, k, REQUESTS_RETRIES)
    /\ UNCHANGED <<REQUESTS_RETRIES, shapes, returned, raised>>
    /\ UNCHANGED outsideClient

\* requests.post answers with status 200
Status200 ==
    /\ InLoop
    /\ \E r \in Responses(shapes) :
        /\ r.status_code = HTTP_OK
        /\ LET k == attempt + 1
               x == ExtractText(r)
           IN
            /\ attempt' = k
            /\ resp' = r
            /\ CASE x.kind = "return" ->
                    /\ pc' = "returned"
                    /\ returned' = x.text
                    /\ errors' = Append(errors, NoExc)
                    /\ UNCHANGED <<last_exc, raised>>
                 [] x.kind = "raise" ->
                    /\ pc' = "raised"
                    /\ raised' = EmptyResponse(k)
                    /\ errors' = Append(errors, EmptyResponse(k).wraps)
                    /\ UNCHANGED <<last_exc, returned>>
                 [] OTHER ->
                    /\ pc' = pc
                    /\ last_exc' = AssignLastExc(last_exc, ExtractError(k))
                    /\ errors' = Append(errors, ExtractError(k))
                    /\ UNCHANGED <<returned, raised>>
    /\ UNCHANGED <<REQUESTS_RETRIES, shapes, sleeps>>
    /\ UNCHANGED outsideClient

\* the loop is left by break or by exhausting the range: the final raise
RaiseAfterRetries ==
    /\ \/ pc = "break"
       \/ pc = "loop" /\ (attempt + 1) \notin AttemptRange(REQUESTS_RETRIES)
    /\ pc' = "raised"
    /\ raised' = FailedAfterRetries(last_exc)
    /\ UNCHANGED <<REQUESTS_RETRIES, shapes, attempt, last_exc, resp, returned, errors, sleeps>>
    /\ UNCHANGED outsideClient

ClientInit(family, retrySet) ==
    /\ REQUESTS_RETRIES \in retrySet
    /\ shapes = family
    /\ pc = "loop"
    /\ attempt = 0
    /\ last_exc = NoExc
    /\ resp = NoResp
    /\ returned = <<>>
    /\ raised = NotRaised
    /\ errors = <<>>
    /\ sleeps = <<>>

\* no call of call_ollama_sync is in progress
ClientAwaiting(family) ==
    /\ REQUESTS_RETRIES = 2
    /\ shapes = family
    /\ pc = "idle"
    /\ attempt = 0
    /\ last_exc = NoExc
    /\ resp = NoResp
    /\ returned = <<>>
    /\ raised = NotRaised
    /\ errors = <<>>
    /\ sleeps = <<>>

ClientIdle == ClientAwaiting("few")

\* every name bound in the body of call_ollama_sync is a local of the call
Frame ==
    [pc |-> pc, attempt |-> attempt, last_exc |-> last_exc, resp |-> resp,
     returned |-> returned, raised |-> raised, errors |-> errors, sleeps |-> sleeps]

\* the locals of a call that has not started its loop
FreshFrame ==
    [pc |-> "loop", attempt |-> 0, last_exc |-> NoExc, resp |-> NoResp,
     returned |-> <<>>, raised |-> NotRaised, errors |-> <<>>, sleeps |-> <<>>]

NoFrame == [FreshFrame EXCEPT !.pc = "idle"]

\* there is no second call
OneCall ==
    /\ running = 1
    /\ parked = NoFrame

TwoCalls ==
    /\ running = 1
    /\ parked = FreshFrame

\* the loop variable the resumed call goes on with: its own, `attempt` being
\* a local of its frame; `counter` is the value the call that ran last left
CounterOfLastRun(own, counter) == counter
ResumedAttempt(own, counter) == own

\* the scheduler suspends the running call and resumes the other one
Switch ==
    /\ parked.pc # "idle"
    /\ parked' = Frame
    /\ running' = 3 - running
    /\ pc' = parked.pc
    /\ attempt' = ResumedAttempt(parked.attempt, attempt)
    /\ last_exc' = parked.last_exc
    /\ resp' = parked.resp
    /\ returned' = parked.returned
    /\ raised' = parked.raised
    /\ errors' = parked.errors
    /\ sleeps' = parked.sleeps
    /\ UNCHANGED <<REQUESTS_RETRIES, shapes>>
    /\ UNCHANGED <<parseVars, validateVars, promptVars, facadeVars>>

----------------------------------------------------------------------------
(* Characters.  "EM" is the em dash U+2014, "EN" the en dash U+2013, "LF" and *)
(* "CR" the line breaks, "DQ" and "SQ" the double and the single quote.       *)

Digits == {"1", "2"}
Whitespace == {" "}
Dashes == {"-", "EM", "EN"}
LineBreaks == {"LF", "CR"}
\* the argument of title.strip(" \"' ")
QuoteChars == {" ", "DQ", "SQ"}

\* str.lower() on one character
Lower(c) == CASE c = "A" -> "a" [] c = "B" -> "b" [] OTHER -> c

LowerStr(s) == [i \in 1..Len(s) |-> Lower(s[i])]

\* the number of leading characters of s that are in chars
RECURSIVE Leading(_, _)
Leading(s, chars) ==
    IF s # <<>> /\ Head(s) \in chars THEN 1 + Leading(Tail(s), chars) ELSE 0

\* the number of trailing characters of s that are in chars
RECURSIVE Trailing(_, _)
Trailing(s, chars) ==
    IF s # <<>> /\ s[Len(s)] \in chars
    THEN 1 + Trailing(SubSeq(s, 1, Len(s) - 1), chars)
    ELSE 0

From(s, i) == SubSeq(s, i, Len(s))

\* str.strip(chars); str.strip() is Strip(s, Whitespace)
Strip(s, chars) ==
    LET l == Leading(s, chars)
    IN  IF l = Len(s) THEN <<>> ELSE SubSeq(s, l + 1, Len(s) - Trailing(s, chars))

\* text.splitlines() without the empty pieces.  "\r\n" is one break for
\* splitlines and two here; the extra piece is empty and the caller drops
\* empty pieces (`if ln.strip()`), so the kept lines are the same.
RECURSIVE SplitLines(_)
SplitLines(s) ==
    LET n == Len(s) - Leading(s, LineBreaks)
        body == From(s, Leading(s, LineBreaks) + 1)
        len == CHOOSE k \in 0..Len(body) :
                  /\ \A i \in 1..k : body[i] \notin LineBreaks
                  /\ k = Len(body) \/ body[k + 1] \in LineBreaks
    IN  IF n = 0 THEN <<>>
        ELSE <<SubSeq(body, 1, len)>> \o SplitLines(From(body, len + 1))

\* lines = [ln.strip() for ln in text.splitlines() if ln.strip()]
StrippedLines(s) ==
    LET raw == SplitLines(s)
        kept == SelectSeq(raw, LAMBDA ln : Strip(ln, Whitespace) # <<>>)
    IN  [i \in 1..Len(kept) |-> Strip(kept[i], Whitespace)]

----------------------------------------------------------------------------
(* The regular expressions of parse_recommendations *)

Rec(title, reason) == [title |-> title, reason |-> reason]
NoMatch == [ok |-> FALSE, title |-> <<>>, reason |-> <<>>]
Match(title, reason) == [ok |-> TRUE, title |-> title, reason |-> reason]

\* \d+[\.\)] at the start of ln: the length of the index, 0 when there is none
IndexLen(ln) ==
    LET d == Leading(ln, Digits)
    IN  IF d >= 1 /\ d < Len(ln) /\ ln[d + 1] \in {".", ")"} THEN d + 1 ELSE 0

\* position of the first dash of s, 0 when it has none
FirstDash(s) ==
    IF \E i \in 1..Len(s) : s[i] \in Dashes
    THEN CHOOSE i \in 1..Len(s) : s[i] \in Dashes /\ \A j \in 1..(i - 1) : s[j] \notin Dashes
    ELSE 0

\* \s*(.+)$ on a non-empty s: \s* is greedy and gives one character back when
\* it swallowed everything
AfterSpaces(s) ==
    IF Leading(s, Whitespace) = Len(s) THEN From(s, Len(s)) ELSE From(s, Leading(s, Whitespace) + 1)

\* (?P<title>[^dashes]+?)\s*[-—–]\s*(?P<reason>.+)$ on s: the lazy title is the
\* shortest non-empty prefix followed by blanks and the first dash
TitleDashReason(s) ==
    LET d == FirstDash(s)
        before == SubSeq(s, 1, d - 1)
        t == IF Trailing(before, Whitespace) = Len(before) THEN 1
             ELSE Len(before) - Trailing(before, Whitespace)
    IN  IF d >= 2 /\ d < Len(s)
        THEN Match(SubSeq(s, 1, t), AfterSpaces(From(s, d + 1)))
        ELSE NoMatch

IndexKeptInTitle(ln) == TitleDashReason(ln)

\* pattern.match(ln): the optional index (?:\d+[\.\)]\s*)? is tried first, its
\* \s* from the longest run of blanks down to none, and then skipped.  ln is
\* stripped, so the leading ^\s* matches nothing.
PatternMatch(ln) ==
    LET ix == IndexLen(ln)
        blanks == Leading(From(ln, ix + 1), Whitespace)
        ways == {j \in 0..blanks : TitleDashReason(From(ln, ix + j + 1)).ok}
        best == CHOOSE j \in ways : \A k \in ways : k <= j
    IN  IF ix > 0 /\ ways # {}
        THEN TitleDashReason(From(ln, ix + best + 1))
        ELSE TitleDashReason(ln)

\* re.match(r'^\s*(\d+)[\.\)]\s*(.+)$', ln): group 2 is the title
IndexedMatch(ln) ==
    LET ix == IndexLen(ln)
    IN  IF ix > 0 /\ ix < Len(ln)
        THEN Match(AfterSpaces(From(ln, ix + 1)), <<>>)
        ELSE NoMatch

\* re.match(r'^(?P<title>[^dashes]+)\s*[-—–]\s*(?P<reason>.+)$', ln): the greedy
\* title runs up to the first dash
DashMatch(ln) ==
    LET d == FirstDash(ln)
    IN  IF d >= 2 /\ d < Len(ln)
        THEN Match(SubSeq(ln, 1, d - 1), AfterSpaces(From(ln, d + 1)))
        ELSE NoMatch

\* if len(ln) < 60
BareLineLimit == 60

\* the configured maximum length of a reason (spec, section 3 and 4.4)
ReasonCap == 8

\* if title and len(title) > 1
TitleAccepted(title) == title # <<>> /\ Len(title) > 1

\* the last rule: a bare line becomes a title when it is short enough
EveryBareLine(ln) == <<Rec(Strip(ln, QuoteChars), <<>>)>>
BareLineAtLimit(ln) ==
    IF Len(ln) <= BareLineLimit THEN <<Rec(Strip(ln, QuoteChars), <<>>)>> ELSE <<>>
BareLine(ln) ==
    IF Len(ln) < BareLineLimit THEN <<Rec(Strip(ln, QuoteChars), <<>>)>> ELSE <<>>

ParseLineFallingThrough(ln) ==
    LET m == PatternMatch(ln)
        m2 == IndexedMatch(ln)
        m3 == DashMatch(ln)
    IN  IF m.ok /\ TitleAccepted(Strip(m.title, QuoteChars))
        THEN <<Rec(Strip(m.title, QuoteChars), Strip(m.reason, Whitespace))>>
        ELSE IF m2.ok
        THEN <<Rec(Strip(m2.title, QuoteChars), <<>>)>>
        ELSE IF m3.ok
        THEN <<Rec(Strip(m3.title, Whitespace), Strip(m3.reason, Whitespace))>>
        ELSE BareLine(ln)

\* one iteration of `for ln in lines`: the records appended for ln (none or one)
ParseLine(ln) ==
    LET m == PatternMatch(ln)
        m2 == IndexedMatch(ln)
        m3 == DashMatch(ln)
    IN  IF m.ok
        THEN IF TitleAccepted(Strip(m.title, QuoteChars))
             THEN <<Rec(Strip(m.title, QuoteChars), Strip(m.reason, Whitespace))>>
             ELSE <<>>
        ELSE IF m2.ok
        THEN <<Rec(Strip(m2.title, QuoteChars), <<>>)>>
        ELSE IF m3.ok
        THEN <<Rec(Strip(m3.title, Whitespace), Strip(m3.reason, Whitespace))>>
        ELSE BareLine(ln)

RECURSIVE ParseLines(_)
ParseLines(lines) ==
    IF lines = <<>> THEN <<>> ELSE ParseLine(Head(lines)) \o ParseLines(Tail(lines))

\* key = r["title"].lower(); if key in seen: continue
CaseSensitiveKey(r) == r.title
DedupKey(r) == LowerStr(r.title)

\* the loop `for r in recs` from record i on, with the locals seen and acc (unique)
RECURSIVE DedupLateBreak(_, _, _, _, _)
DedupLateBreak(rs, i, seen, acc, n) ==
    IF i > Len(rs) THEN acc
    ELSE IF DedupKey(rs[i]) \in seen THEN DedupLateBreak(rs, i + 1, seen, acc, n)
    ELSE IF Len(acc) >= n THEN Append(acc, rs[i])
    ELSE DedupLateBreak(rs, i + 1, seen \cup {DedupKey(rs[i])}, Append(acc, rs[i]), n)

RECURSIVE Dedup(_, _, _, _, _)
Dedup(rs, i, seen, acc, n) ==
    IF i > Len(rs) THEN acc
    ELSE IF DedupKey(rs[i]) \in seen THEN Dedup(rs, i + 1, seen, acc, n)
    ELSE IF Len(acc) + 1 >= n THEN Append(acc, rs[i])
    ELSE Dedup(rs, i + 1, seen \cup {DedupKey(rs[i])}, Append(acc, rs[i]), n)

\* the local recs at line 42: empty when `if not text: return []` left early
ParsedRecs(t) == IF t = <<>> THEN <<>> ELSE ParseLines(StrippedLines(t))

\* parse_recommendations(text, expected)
ParseRecommendations(t, n) == IF t = <<>> THEN <<>> ELSE Dedup(ParsedRecs(t), 1, {}, <<>>, n)

----------------------------------------------------------------------------
(* The texts parse_recommendations is called with *)

Rep(c, n) == [i \in 1..n |-> c]

\* lines that are combined into texts of up to MaxLines lines
CoreLines ==
    {<<"1", ".", " ", "a", "b", " ", "EM", " ", "x", "y">>,
     <<"2", ")", " ", "A", "B", " ", "-", " ", "z">>,
     <<"b", "a", "-", "x", "y", "z">>,
     <<" ", " ", "A", "b", " ", " ">>,
     <<"1", ".", "b", "DQ", "a", "DQ">>,
     <<"a", "-", "x">>,
     <<"-", " ", "a", "b", " ", "EN", " ", "x">>,
     <<" ", " ", " ">>}

\* texts of their own: edge cases of the rules, and bare lines around the length limit
EdgeTexts ==
    {<<"1", ".", " ", "DQ">>,
     <<"DQ", "SQ">>,
     <<"1", ".">>,
     <<"1", "2", ")", " ", "a", "b", " ", " ", "EM", " ", " ", "x", " ", "y">>,
     <<"1", ".", " ", "-", " ", "a", "b">>,
     <<"a", "b", "CR", "LF", "A", "B", "CR", "B", "a">>,
     <<"LF", "LF", "a", "b", "-", "x", "LF">>,
     <<"a", "b", " ", "-">>,
     <<"1", " ", "a", "b">>,
     <<"a", "b", "-", "-", "x">>,
     Rep("a", BareLineLimit - 1), Rep("a", BareLineLimit), Rep("a", BareLineLimit + 1),
     <<"1", ".">> \o Rep("a", BareLineLimit),
     <<"a", "b", "-", "x", "LF">> \o Rep("a", BareLineLimit) \o <<"LF", "b", "a">>,
     <<"a", "b", "-">> \o Rep("x", ReasonCap + 1)}

Alphabet == {"1", ".", "a", "A", "-", "EM", " ", "DQ"}

\* every line of up to MaxLineLen characters
RECURSIVE StringsUpTo(_)
StringsUpTo(n) ==
    IF n = 0 THEN {<<>>}
    ELSE LET shorter == StringsUpTo(n - 1)
         IN  shorter \cup {Append(w, c) : w \in {v \in shorter : Len(v) = n - 1}, c \in Alphabet}

\* "\n".join(ls)
RECURSIVE JoinLines(_)
JoinLines(ls) ==
    IF ls = <<>> THEN <<>>
    ELSE IF Len(ls) = 1 THEN ls[1]
    ELSE ls[1] \o <<"LF">> \o JoinLines(Tail(ls))

LineSeqs == UNION {[1..k -> CoreLines] : k \in 0..MaxLines}

Texts == {JoinLines(ls) : ls \in LineSeqs} \cup EdgeTexts \cup StringsUpTo(MaxLineLen)

----------------------------------------------------------------------------
(* parse_recommendations *)

ParseInit ==
    /\ text \in Texts
    /\ expected \in 0..MaxExpected
    /\ recs = <<>>
    /\ unique = <<>>
    /\ parse_pc = "call"

\* no call of parse_recommendations is in progress
ParseIdle ==
    /\ text = <<>>
    /\ expected = 0
    /\ recs = <<>>
    /\ unique = <<>>
    /\ parse_pc = "idle"

\* unique = parse_recommendations(text, expected)
Parse ==
    /\ parse_pc = "call"
    /\ recs' = ParsedRecs(text)
    /\ unique' = ParseRecommendations(text, expected)
    /\ parse_pc' = "done"
    /\ UNCHANGED <<text, expected>>
    /\ UNCHANGED outsideParse

----------------------------------------------------------------------------
(* LikesPayload.validate_and_clean_likes *)

\* config.MAX_LIKES
MAX_LIKES == 50

Invalid(kind, index) == [ok |-> FALSE, likes |-> <<>>, error |-> [kind |-> kind, index |-> index]]
Valid(list) == [ok |-> TRUE, likes |-> list, error |-> [kind |-> "none", index |-> 0]]
NotValidated == [ok |-> FALSE, likes |-> <<>>, error |-> [kind |-> "none", index |-> 0]]

\* s = item.strip()
Untrimmed(s) == s
CleanItem(s) == Strip(s, Whitespace)

\* the two raises of the loop body, for one item
BlankAllowed(item) == IF item.t # "str" THEN "not_string" ELSE "none"
ItemError(item) ==
    IF item.t # "str" THEN "not_string"
    ELSE IF CleanItem(item.v) = <<>> THEN "blank"
    ELSE "none"

\* the local cleaned after the loop
Cleaned(v) == [i \in 1..Len(v) |-> CleanItem(v[i].v)]

\* if len(cleaned) > MAX_LIKES
TooManyAtLimit(cleaned) == Len(cleaned) >= MAX_LIKES
TooMany(cleaned) == Len(cleaned) > MAX_LIKES

\* key = t.lower()
ExactLikeKey(t) == t
LikeKey(t) == LowerStr(t)

\* the loop `for t in cleaned` from entry i on, with the locals seen and deduped
RECURSIVE DedupLikes(_, _, _, _)
DedupLikes(cleaned, i, seen, deduped) ==
    IF i > Len(cleaned) THEN deduped
    ELSE IF LikeKey(cleaned[i]) \in seen THEN DedupLikes(cleaned, i + 1, seen, deduped)
    ELSE DedupLikes(cleaned, i + 1, seen \cup {LikeKey(cleaned[i])}, Append(deduped, cleaned[i]))

SizeCheckedAfterDedup(v) ==
    LET bad == {i \in 1..Len(v) : ItemError(v[i]) # "none"}
        first == CHOOSE i \in bad : \A j \in bad : i <= j
        deduped == DedupLikes(Cleaned(v), 1, {}, <<>>)
    IN  IF v = <<>> THEN Invalid("empty", 0)
        ELSE IF bad # {} THEN Invalid(ItemError(v[first]), first)
        ELSE IF TooMany(deduped) THEN Invalid("too_large", 0)
        ELSE Valid(deduped)

\* validate_and_clean_likes(v): the deduplicated list, or the ValueError that
\* pydantic reports as a ValidationError
ValidateAndCleanLikes(v) ==
    LET bad == {i \in 1..Len(v) : ItemError(v[i]) # "none"}
        first == CHOOSE i \in bad : \A j \in bad : i <= j
    IN  IF v = <<>> THEN Invalid("empty", 0)
        ELSE IF bad # {} THEN Invalid(ItemError(v[first]), first)
        ELSE IF TooMany(Cleaned(v)) THEN Invalid("too_large", 0)
        ELSE Valid(DedupLikes(Cleaned(v), 1, {}, <<>>))

\* the entries the likes lists are built from
LikeItems ==
    {Str(<<>>), Str(<<" ">>), Str(<<"a">>), Str(<<"A">>), Str(<<" ", "a", " ">>),
     Str(<<"b">>), Str(<<"a", " ", "b">>), NonStr}

\* n entries "a", "aa", "aaa", ...: pairwise distinct
DistinctLikes(n) == [i \in 1..n |-> Str(Rep("a", i))]

\* lists around the maximum count
LongLikes ==
    {Rep(Str(<<"a">>), MAX_LIKES), Rep(Str(<<"a">>), MAX_LIKES + 1),
     DistinctLikes(MAX_LIKES), DistinctLikes(MAX_LIKES + 1),
     [DistinctLikes(MAX_LIKES) EXCEPT ![MAX_LIKES] = Str(<<" ">>)],
     [DistinctLikes(MAX_LIKES + 1) EXCEPT ![2] = NonStr],
     [DistinctLikes(MAX_LIKES) EXCEPT ![MAX_LIKES] = Str(<<" ", "A", " ">>)]}

LikesInputs == UNION {[1..k -> LikeItems] : k \in 0..MaxLikesLen} \cup LongLikes

ValidateInit ==
    /\ likes \in LikesInputs
    /\ validated = NotValidated
    /\ validate_pc = "call"

\* no call of the validator is in progress
ValidateIdle ==
    /\ likes = <<>>
    /\ validated = NotValidated
    /\ validate_pc = "idle"

\* LikesPayload.model_validate({"likes": likes})
Validate ==
    /\ validate_pc = "call"
    /\ validated' = ValidateAndCleanLikes(likes)
    /\ validate_pc' = "done"
    /\ UNCHANGED likes
    /\ UNCHANGED outsideValidate

----------------------------------------------------------------------------
(* build_prompt *)
(* The fixed passages of the prompt template are held as one token each;   *)
(* the likes entries and the digits of the count are held character by     *)
(* character.  In FormatLine the em dash is written "--" and the en dash   *)
(* of "10-30" is written "-".                                              *)

RECOMMENDATION_COUNT == 10

Framing == "You are an expert anime TV and streaming show recommender."
UserProvided == "User provided a list of shows they like."
ProduceExactly == "Produce exactly "
DistinctNotInList ==
    " distinct TV show or limited-series recommendations that are NOT in the user's list. For each recommendation output a single numbered line in the format:"
FormatLine == "1. Title -- One concise sentence (10-30 words) explaining why this is a good match."
AvoidFiller == "Avoid filler, do not list the user's input, prefer diverse genres and eras where appropriate."
UserLikes == "User likes:"
OutputOnly == "Output exactly the numbered items and nothing else."
AllAnime == "Recommendations should all be anime."

\* the argument n: given by the caller, or omitted
Given(k) == [given |-> TRUE, v |-> k]
Omitted == [given |-> FALSE, v |-> 0]

\* n: int = RECOMMENDATION_COUNT
CountOrDefault(n) == IF n.given THEN n.v ELSE RECOMMENDATION_COUNT

DigitChars == <<"0", "1", "2", "3", "4", "5", "6", "7", "8", "9">>

\* f"{n}" for n >= 0
RECURSIVE Decimal(_)
Decimal(n) ==
    IF n < 10 THEN <<DigitChars[n + 1]>>
    ELSE Decimal(n \div 10) \o <<DigitChars[(n % 10) + 1]>>

\* f"- {s}"
Bullet(s) == <<"-", " ">> \o s

\* "\n".join(f"- {s}" for s in likes)
LikesBlock(ls) == JoinLines([i \in 1..Len(ls) |-> Bullet(ls[i])])

BuildPrompt(ls, n) ==
    <<Framing, "LF", UserProvided, "LF", ProduceExactly>> \o Decimal(n)
        \o <<DistinctNotInList, "LF", "LF", FormatLine, "LF", "LF", AvoidFiller, "LF", "LF",
             UserLikes, "LF">>
        \o LikesBlock(ls)
        \o <<"LF", "LF", OutputOnly, "LF", AllAnime>>

\* entries as the validator can return them: trimmed, non-empty, possibly
\* with a line break inside
PromptEntries ==
    {<<"a">>, <<"b">>, <<"A", " ", "b">>, <<"a", "LF", "-", " ", "b">>}

PromptLikes == UNION {[1..k -> PromptEntries] : k \in 0..MaxPromptLikes}

PromptCounts == {Omitted} \cup {Given(k) : k \in {0, 1, 5, 10, 12, 100}}

PromptInit ==
    /\ prompt_likes \in PromptLikes
    /\ prompt_n \in PromptCounts
    /\ prompt = <<>>
    /\ prompt_pc = "call"

\* no call of build_prompt is in progress
PromptIdle ==
    /\ prompt_likes = <<>>
    /\ prompt_n = Omitted
    /\ prompt = <<>>
    /\ prompt_pc = "idle"

\* build_prompt(likes, n), build_prompt(likes)
BuildPromptCall ==
    /\ prompt_pc = "call"
    /\ prompt' = BuildPrompt(prompt_likes, CountOrDefault(prompt_n))
    /\ prompt_pc' = "done"
    /\ UNCHANGED <<prompt_likes, prompt_n>>
    /\ UNCHANGED outsidePrompt

----------------------------------------------------------------------------
(* Service Facade *)
(* The module that serves POST /recommend is not part of the sources at    *)
(* hand; the facade is modelled from the design document (sections 4.5     *)
(* and 7).  It calls the four components above, which run as modelled from *)
(* their code.                                                             *)

Failure(status, kind) == [status |-> status, kind |-> kind, recommendations |-> <<>>]
Success(list) == [status |-> HTTP_OK, kind |-> "ok", recommendations |-> list]
NoResponse == [status |-> 0, kind |-> "none", recommendations |-> <<>>]

NoRequest == [likes |-> <<>>, n |-> 0]

\* the failure a failed call of the model client is reported as
BackendFailure(exc) ==
    IF exc.wraps.kind = "RequestException"
    THEN Failure(502, "NetworkError")
    ELSE Failure(502, "BackendError")

\* the response to a request whose backend text parsed to list
RespondWithAnyList(list) == Success(list)
Respond(list) == IF list = <<>> THEN Failure(502, "NoRecommendations") ELSE Success(list)

FacadeRequests ==
    [likes : {<<>>, <<NonStr>>, <<Str(<<" ">>)>>, <<Str(<<"a">>), Str(<<>>)>>,
              DistinctLikes(MAX_LIKES + 1),
              <<Str(<<"a">>)>>, <<Str(<<" ", "a", " ">>), Str(<<"A">>), Str(<<"b">>)>>},
     n : {1, RECOMMENDATION_COUNT}]

FacadeInit ==
    /\ request \in FacadeRequests
    /\ response = NoResponse
    /\ stages = <<>>
    /\ facade_pc = "start"

\* no request is being served
FacadeIdle ==
    /\ request = NoRequest
    /\ response = NoResponse
    /\ stages = <<>>
    /\ facade_pc = "idle"

\* the facade hands the payload to the Input Validator
FacadeStart ==
    /\ facade_pc = "start"
    /\ likes' = request.likes
    /\ validated' = NotValidated
    /\ validate_pc' = "call"
    /\ stages' = Append(stages, "validate")
    /\ facade_pc' = "validating"
    /\ UNCHANGED <<request, response, clientVars, parseVars, promptVars, callVars>>

\* the validator is back: InvalidInput, or on to the Prompt Builder
FacadeAfterValidate ==
    /\ facade_pc = "validating"
    /\ validate_pc = "done"
    /\ IF validated.ok
       THEN /\ prompt_likes' = validated.likes
            /\ prompt_n' = Given(request.n)
            /\ prompt' = <<>>
            /\ prompt_pc' = "call"
            /\ stages' = Append(stages, "prompt")
            /\ facade_pc' = "prompting"
            /\ UNCHANGED response
       ELSE /\ response' = Failure(400, "InvalidInput")
            /\ facade_pc' = "done"
            /\ UNCHANGED <<stages, promptVars>>
    /\ UNCHANGED <<request, clientVars, parseVars, validateVars, callVars>>

\* the prompt is built: on to the Model Client
FacadeAfterPrompt ==
    /\ facade_pc = "prompting"
    /\ prompt_pc = "done"
    /\ pc' = "loop"
    /\ attempt' = 0
    /\ last_exc' = NoExc
    /\ resp' = NoResp
    /\ returned' = <<>>
    /\ raised' = NotRaised
    /\ errors' = <<>>
    /\ sleeps' = <<>>
    /\ stages' = Append(stages, "client")
    /\ facade_pc' = "calling"
    /\ UNCHANGED <<REQUESTS_RETRIES, shapes, request, response, parseVars, validateVars, promptVars, callVars>>

\* the client is back: a backend failure, or on to the Parser
FacadeAfterClient ==
    /\ facade_pc = "calling"
    /\ pc \in {"returned", "raised"}
    /\ IF pc = "returned"
       THEN /\ text' = returned
            /\ expected' = request.n
            /\ recs' = <<>>
            /\ unique' = <<>>
            /\ parse_pc' = "call"
            /\ stages' = Append(stages, "parse")
            /\ facade_pc' = "parsing"
            /\ UNCHANGED response
       ELSE /\ response' = BackendFailure(raised)
            /\ facade_pc' = "done"
            /\ UNCHANGED <<stages, parseVars>>
    /\ UNCHANGED <<request, clientVars, validateVars, promptVars, callVars>>

\* the parser is back: NoRecommendations, or success
FacadeAfterParse ==
    /\ facade_pc = "parsing"
    /\ parse_pc = "done"
    /\ response' = Respond(unique)
    /\ facade_pc' = "done"
    /\ UNCHANGED <<request, stages, clientVars, parseVars, validateVars, promptVars, callVars>>

----------------------------------------------------------------------------
(* Specifications *)

ClientNext == RequestFails \/ StatusNot200 \/ Status200 \/ RaiseAfterRetries

\* the retry loop, for every configured retry count up to the bound
Init == ClientInit("few", 0 .. MaxRetries) /\ ParseIdle /\ ValidateIdle /\ PromptIdle /\ FacadeIdle /\ OneCall
Next == ClientNext
Spec == Init /\ [][Next]_vars

\* one attempt against every response dialect
InitExtract == ClientInit("all", {0}) /\ ParseIdle /\ ValidateIdle /\ PromptIdle /\ FacadeIdle /\ OneCall
SpecExtract == InitExtract /\ [][Next]_vars

\* one call of parse_recommendations on every text and expected count
InitParse == ClientIdle /\ ParseInit /\ ValidateIdle /\ PromptIdle /\ FacadeIdle /\ OneCall
NextParse == Parse
SpecParse == InitParse /\ [][NextParse]_vars

\* one call of the validator on every likes list
InitValidate == ClientIdle /\ ParseIdle /\ ValidateInit /\ PromptIdle /\ FacadeIdle /\ OneCall
NextValidate == Validate
SpecValidate == InitValidate /\ [][NextValidate]_vars

\* one call of build_prompt on every likes list and count
InitPrompt == ClientIdle /\ ParseIdle /\ ValidateIdle /\ PromptInit /\ FacadeIdle /\ OneCall
NextPrompt == BuildPromptCall
SpecPrompt == InitPrompt /\ [][NextPrompt]_vars

\* two calls of call_ollama_sync under every interleaving of their attempts
InitConcurrent ==
    ClientInit("two", {1, 2}) /\ ParseIdle /\ ValidateIdle /\ PromptIdle /\ FacadeIdle /\ TwoCalls
NextConcurrent == ClientNext \/ Switch
SpecConcurrent == InitConcurrent /\ [][NextConcurrent]_vars

\* the retry loop runs on: a call that can take a step takes one
SpecLive == Spec /\ WF_vars(Next)

\* one request served end to end, for every payload and every run of the backend
InitFacade == ClientAwaiting("texts") /\ ParseIdle /\ ValidateIdle /\ PromptIdle /\ FacadeInit /\ OneCall
NextFacade ==
    \/ FacadeStart
    \/ Validate
    \/ FacadeAfterValidate
    \/ BuildPromptCall
    \/ FacadeAfterPrompt
    \/ ClientNext
    \/ FacadeAfterClient
    \/ Parse
    \/ FacadeAfterParse
SpecFacade == InitFacade /\ [][NextFacade]_vars

----------------------------------------------------------------------------
(* Properties of call_ollama_sync *)

\* a network error, or a response with a status in [500,599]
IsTransient(e) ==
    \/ e.kind = "RequestException"
    \/ e.kind = "StatusError" /\ 500 <= e.status /\ e.status <= 599

AllTransient == \A i \in 1..Len(errors) : IsTransient(errors[i])

SleepsAfterAttempt(k) == {j \in 1..Len(sleeps) : sleeps[j].after = k}

\* C1: when every attempt fails with a network error or a 5xx status, the
\* call never returns, never makes more than REQUESTS_RETRIES + 1 attempts,
\* and when it has failed it has made exactly REQUESTS_RETRIES + 1 attempts;
\* after attempt REQUESTS_RETRIES + 1 only the final raise is possible.
C1_TransientFailuresExhaustRetries ==
    AllTransient =>
        /\ pc # "returned"
        /\ attempt <= REQUESTS_RETRIES + 1
        /\ pc = "raised" =>
            /\ attempt = REQUESTS_RETRIES + 1
            /\ raised.type = "RuntimeError"
        /\ (pc = "loop" /\ attempt = REQUESTS_RETRIES + 1) =>
            /\ ENABLED RaiseAfterRetries
            /\ ~ ENABLED (RequestFails \/ StatusNot200 \/ Status200)

C1_Witness ==
    /\ REQUESTS_RETRIES = 2
    /\ pc = "raised"
    /\ attempt = 3
    /\ AllTransient
    /\ \E i \in 1..Len(errors) : errors[i].kind = "RequestException"
    /\ \E i \in 1..Len(errors) : errors[i].kind = "StatusError"

C3_LinearBackoff ==
    \A k \in 1..Len(errors) :
        IsTransient(errors[k]) =>
            IF k <= REQUESTS_RETRIES
            THEN /\ Cardinality(SleepsAfterAttempt(k)) = 1
                 /\ \A j \in SleepsAfterAttempt(k) : sleeps[j].duration = k * REQUESTS_BACKOFF_MS
            ELSE SleepsAfterAttempt(k) = {}

C3_Witness ==
    /\ REQUESTS_RETRIES = 2
    /\ attempt = 3
    /\ AllTransient
    /\ sleeps = <<[after |-> 1, duration |-> REQUESTS_BACKOFF_MS],
                  [after |-> 2, duration |-> 2 * REQUESTS_BACKOFF_MS]>>

\* C4: the RuntimeError raised after the loop wraps the error of the last
\* attempt made.
C4_WrapsLastError ==
    (pc = "raised" /\ raised.type = "RuntimeError") =>
        /\ errors # <<>>
        /\ raised.wraps = errors[Len(errors)]
        /\ raised.wraps.at = attempt

C4_Witness ==
    /\ pc = "raised"
    /\ raised.type = "RuntimeError"
    /\ attempt = 3
    /\ errors[1].kind = "RequestException"
    /\ errors[2].kind = "ExtractError"
    /\ errors[3].kind = "StatusError"
    /\ raised.wraps = StatusError(3, 404)

\* C5: whenever call_ollama_sync returns, the returned text is non-empty.
C5_ReturnedTextNonEmpty == pc = "returned" => returned # <<>>

\* C6: after a 200 response, a top-level string field (text, then response,
\* then generated, then output) is returned before a choices list is looked
\* at; the first choice's text before its message.content; a JSON string
\* next; and the raw body is returned only when JSON parsing failed or none
\* of these shapes matched.
C6_ExtractionPriority ==
    resp.status_code = HTTP_OK =>
        LET j == resp.json
            d == resp.json.obj
            f == resp.json.obj.choices.first
            isDict == j.kind = "dict"
            str(x) == x.t = "str"
            top == str(d.text) \/ str(d.response) \/ str(d.generated) \/ str(d.output)
            firstDict == isDict /\ d.choices.t = "list" /\ f.t = "dict"
            choiceText == firstDict /\ str(f.text)
            choiceContent == firstDict /\ f.message.t = "dict" /\ str(f.message.content)
            gives(s) == pc = "returned" /\ returned = s
        IN  /\ (isDict /\ str(d.text)) => gives(d.text.v)
            /\ (isDict /\ ~str(d.text) /\ str(d.response)) => gives(d.response.v)
            /\ (isDict /\ ~str(d.text) /\ ~str(d.response) /\ str(d.generated)) => gives(d.generated.v)
            /\ (isDict /\ ~str(d.text) /\ ~str(d.response) /\ ~str(d.generated) /\ str(d.output))
                   => gives(d.output.v)
            /\ (~top /\ choiceText) => gives(f.text.v)
            /\ (~top /\ ~choiceText /\ choiceContent) => gives(f.message.content.v)
            /\ j.kind = "str" => gives(j.str)
            /\ (pc = "returned" /\ returned = <<"b">>) =>
                   /\ resp.text = <<"b">>
                   /\ \/ j.kind = "invalid"
                      \/ j.kind = "other"
                      \/ isDict /\ ~top /\ ~choiceText /\ ~choiceContent

C6_Witness ==
    /\ pc = "returned"
    /\ resp.json.kind = "dict"
    /\ resp.json.obj.text = NonStr
    /\ resp.json.obj.response = Str(<<"r">>)
    /\ resp.json.obj.output = Str(<<"o">>)
    /\ resp.json.obj.choices.t = "list"
    /\ resp.json.obj.choices.first.text = Str(<<"c">>)
    /\ resp.text = <<"b">>
    /\ returned = <<"r">>

----------------------------------------------------------------------------
(* Properties of parse_recommendations *)

\* C7: parse_recommendations returns at most `expected` records, for every
\* expected count including 0.
C7_AtMostExpected == parse_pc = "done" => Len(unique) <= expected

\* a line no rule of the parser applies to: no index, no dash, 60 characters or more
Unparsable(ln) ==
    /\ Len(ln) >= BareLineLimit
    /\ \A i \in 1..Len(ln) : ln[i] \notin Dashes
    /\ ln[1] \notin Digits

NoParsableLine(t) ==
    \A i \in 1..Len(StrippedLines(t)) : Unparsable(StrippedLines(t)[i])

\* C8: parse_recommendations returns a list of (title, reason) records for
\* every text, and the empty list for the empty string and for a text none
\* of whose lines can be parsed.
C8_NeverFails ==
    parse_pc = "done" =>
        /\ \A i \in 1..Len(unique) : DOMAIN unique[i] = {"title", "reason"}
        /\ text = <<>> => unique = <<>>
        /\ NoParsableLine(text) => unique = <<>>

C8_Witness ==
    /\ parse_pc = "done"
    /\ expected > 0
    /\ Len(text) >= BareLineLimit
    /\ NoParsableLine(text)
    /\ unique = <<>>

\* C9: the titles of the returned records are pairwise distinct when
\* compared case-insensitively, and each returned record is the first parsed
\* record with its title, reason included.
C9_DistinctTitlesFirstKept ==
    parse_pc = "done" =>
        /\ \A i, j \in 1..Len(unique) :
               i # j => LowerStr(unique[i].title) # LowerStr(unique[j].title)
        /\ \A i \in 1..Len(unique) :
               \E k \in 1..Len(recs) :
                   /\ recs[k] = unique[i]
                   /\ \A m \in 1..(k - 1) : LowerStr(recs[m].title) # LowerStr(unique[i].title)

C9_Witness ==
    /\ parse_pc = "done"
    /\ expected = 3
    /\ Len(recs) = 3
    /\ recs[1].title = <<"a", "b">>
    /\ recs[2].title = <<"b", "a">>
    /\ recs[3] = Rec(<<"A", "B">>, <<"z">>)
    /\ unique = <<Rec(<<"a", "b">>, <<"x", "y">>), Rec(<<"b", "a">>, <<"x", "y", "z">>)>>

\* C10: no reason of a returned record is longer than the configured cap.
C10_ReasonWithinCap ==
    parse_pc = "done" => \A i \in 1..Len(unique) : Len(unique[i].reason) <= ReasonCap

\* C11: every record returned by parse_recommendations has a non-empty title.
C11_TitlesNonEmpty ==
    parse_pc = "done" => \A i \in 1..Len(unique) : unique[i].title # <<>>

----------------------------------------------------------------------------
(* Properties of validate_and_clean_likes *)

AllBlank(s) == \A i \in 1..Len(s) : s[i] \in Whitespace

\* t is s without some blanks at its two ends
TrimmedFormOf(t, s) ==
    \E l \in 0..Len(s) :
        /\ l + Len(t) <= Len(s)
        /\ SubSeq(s, l + 1, l + Len(t)) = t
        /\ AllBlank(SubSeq(s, 1, l))
        /\ AllBlank(SubSeq(s, l + Len(t) + 1, Len(s)))

\* C12: an accepted list comes back without two entries equal under
\* case-insensitive comparison; every entry is the first input entry of its
\* key, trimmed and in its own casing, and the entries keep the order of
\* these first occurrences.
C12_NoDuplicatesFirstOccurrenceOrder ==
    (validate_pc = "done" /\ validated.ok) =>
        LET out == validated.likes
            \* the case-insensitive keys of the input entries and of the output entries
            inKey == [j \in 1..Len(likes) |-> LowerStr(Strip(likes[j].v, Whitespace))]
            outKey == [i \in 1..Len(out) |-> LowerStr(out[i])]
            \* the index of the first input entry with the key of output entry i
            firstOf == [i \in 1..Len(out) |->
                           IF \E j \in 1..Len(likes) : inKey[j] = outKey[i]
                           THEN CHOOSE j \in 1..Len(likes) :
                                    /\ inKey[j] = outKey[i]
                                    /\ \A m \in 1..(j - 1) : inKey[m] # outKey[i]
                           ELSE 0]
        IN  /\ \A i, j \in 1..Len(out) : i # j => outKey[i] # outKey[j]
            /\ \A i \in 1..Len(out) : firstOf[i] # 0
            /\ \A j \in 1..Len(likes) : \E i \in 1..Len(out) : inKey[j] = outKey[i]
            /\ \A i \in 1..Len(out) : TrimmedFormOf(out[i], likes[firstOf[i]].v)
            /\ \A i, j \in 1..Len(out) : i < j => firstOf[i] < firstOf[j]

C12_Witness ==
    /\ validate_pc = "done"
    /\ likes = <<Str(<<" ", "a", " ">>), Str(<<"b">>), Str(<<"A">>)>>
    /\ validated.ok
    /\ validated.likes = <<<<"a">>, <<"b">>>>

\* C13: the validator fails, returning no list, exactly for the empty list,
\* a list with a non-string element, a list with an entry that is empty or
\* blank, and a list of more than MAX_LIKES entries.
C13_RejectsExactlyInvalidLists ==
    validate_pc = "done" =>
        LET rejectable ==
                \/ likes = <<>>
                \/ \E i \in 1..Len(likes) : likes[i].t # "str"
                \/ \E i \in 1..Len(likes) : likes[i].t = "str" /\ AllBlank(likes[i].v)
                \/ Len(likes) > MAX_LIKES
        IN  /\ validated.ok <=> ~rejectable
            /\ ~validated.ok => (validated.likes = <<>> /\ validated.error.kind # "none")

C13_Witness ==
    /\ validate_pc = "done"
    /\ likes = DistinctLikes(MAX_LIKES + 1)
    /\ ~validated.ok
    /\ validated.error.kind = "too_large"

\* C14: a returned list has between 1 and MAX_LIKES entries, each non-empty,
\* without a blank at either end, and the trimmed form of an input entry.
C14_LikesRequestInvariant ==
    (validate_pc = "done" /\ validated.ok) =>
        LET out == validated.likes IN
        /\ Len(out) >= 1
        /\ Len(out) <= MAX_LIKES
        /\ \A i \in 1..Len(out) :
               /\ out[i] # <<>>
               /\ out[i][1] \notin Whitespace
               /\ out[i][Len(out[i])] \notin Whitespace
               /\ \E j \in 1..Len(likes) : likes[j].t = "str" /\ TrimmedFormOf(out[i], likes[j].v)

C14_Witness ==
    /\ validate_pc = "done"
    /\ Len(likes) = MAX_LIKES
    /\ likes[MAX_LIKES] = Str(<<" ", "A", " ">>)
    /\ validated.ok
    /\ Len(validated.likes) = MAX_LIKES - 1

----------------------------------------------------------------------------
(* Properties of build_prompt *)

\* the pieces of s between its "LF" tokens, the empty pieces kept
RECURSIVE LinesOf(_)
LinesOf(s) ==
    IF \A i \in 1..Len(s) : s[i] # "LF" THEN <<s>>
    ELSE LET k == CHOOSE i \in 1..Len(s) : s[i] = "LF" /\ \A j \in 1..(i - 1) : s[j] # "LF"
         IN  <<SubSeq(s, 1, k - 1)>> \o LinesOf(From(s, k + 1))

DecimalDigits == {DigitChars[i] : i \in 1..Len(DigitChars)}

DigitValue(c) == (CHOOSE i \in 1..Len(DigitChars) : DigitChars[i] = c) - 1

\* the number a run of decimal digits denotes
RECURSIVE NumberOf(_)
NumberOf(ds) ==
    IF ds = <<>> THEN 0
    ELSE 10 * NumberOf(SubSeq(ds, 1, Len(ds) - 1)) + DigitValue(ds[Len(ds)])

\* the line reads "Produce exactly <count> ..."
StatesCount(line, count) ==
    \E k \in 1..(Len(line) - 2) :
        /\ line[1] = ProduceExactly
        /\ \A i \in 2..(k + 1) : line[i] \in DecimalDigits
        /\ line[k + 2] \notin DecimalDigits
        /\ NumberOf(SubSeq(line, 2, k + 1)) = count

\* the lines after "User likes:" are the entries, one "- <entry>" line each,
\* in the order given, and the listing ends at the blank line
ListsLikes(lines, ls) ==
    \E h \in 1..Len(lines) :
        /\ lines[h] = <<UserLikes>>
        /\ h + Len(ls) + 1 <= Len(lines)
        /\ \A i \in 1..Len(ls) : lines[h + i] = <<"-", " ">> \o ls[i]
        /\ lines[h + Len(ls) + 1] = <<>>

\* C16: the prompt states the requested count, RECOMMENDATION_COUNT when n is
\* omitted, and lists every entry of likes on its own "- <entry>" line in the
\* order given.
C16_PromptStatesCountAndListsLikes ==
    prompt_pc = "done" =>
        LET lines == LinesOf(prompt)
            count == IF prompt_n.given THEN prompt_n.v ELSE RECOMMENDATION_COUNT
        IN  /\ \E i \in 1..Len(lines) : StatesCount(lines[i], count)
            /\ ListsLikes(lines, prompt_likes)

----------------------------------------------------------------------------
(* Properties of the Service Facade *)

\* C17: a response with status 200 carries at least one recommendation, and
\* a request whose backend call returned a text that parsed to the empty
\* list is answered with the 502 failure NoRecommendations.
C17_NeverSuccessWithEmptyList ==
    facade_pc = "done" =>
        /\ response.status = HTTP_OK =>
               (response.kind = "ok" /\ response.recommendations # <<>>)
        /\ (pc = "returned" /\ parse_pc = "done" /\ unique = <<>>) =>
               response = Failure(502, "NoRecommendations")
        /\ response.kind = "NoRecommendations" => (pc = "returned" /\ response.status = 502)

C17_Witness ==
    /\ facade_pc = "done"
    /\ pc = "returned"
    /\ returned = Prose
    /\ unique = <<>>
    /\ response = Failure(502, "NoRecommendations")

StageOrder == <<"validate", "prompt", "client", "parse">>

Called(stage) == \E i \in 1..Len(stages) : stages[i] = stage

\* the likes lists the Input Validator is to reject
InvalidLikes(v) ==
    \/ v = <<>>
    \/ \E i \in 1..Len(v) : v[i].t # "str"
    \/ \E i \in 1..Len(v) : v[i].t = "str" /\ AllBlank(v[i].v)
    \/ Len(v) > MAX_LIKES

----------------------------------------------------------------------------
(* Properties of concurrent calls of call_ollama_sync *)

IsFailure(e) == e.kind \in {"RequestException", "StatusError", "ExtractError"}

\* the error last assigned to last_exc in a run with the history es
RECURSIVE LastFailure(_)
LastFailure(es) ==
    IF es = <<>> THEN NoExc
    ELSE IF IsFailure(es[Len(es)]) THEN es[Len(es)]
    ELSE LastFailure(SubSeq(es, 1, Len(es) - 1))

\* the locals f of a call are what its own attempts alone make them
AsIfAlone(f) ==
    /\ f.attempt = Len(f.errors)
    /\ f.attempt <= REQUESTS_RETRIES + 1
    /\ \A i \in 1..Len(f.errors) : f.errors[i].kind # "None" => f.errors[i].at = i
    /\ \A i \in 1..(Len(f.errors) - 1) : IsFailure(f.errors[i]) /\ ~IsClientError(f.errors[i].status)
    /\ f.last_exc = LastFailure(f.errors)
    /\ \A j \in 1..Len(f.sleeps) :
           /\ f.sleeps[j].after <= f.attempt
           /\ f.sleeps[j].after <= REQUESTS_RETRIES
           /\ f.sleeps[j].duration = REQUESTS_BACKOFF_MS * f.sleeps[j].after
           /\ f.errors[f.sleeps[j].after].kind \in {"RequestException", "StatusError"}
           /\ j > 1 => f.sleeps[j - 1].after < f.sleeps[j].after
    /\ f.attempt > 0 /\ f.errors[f.attempt].kind = "StatusError" =>
           f.resp.status_code = f.errors[f.attempt].status
    /\ f.pc \in {"loop", "break"} => (f.returned = <<>> /\ f.raised = NotRaised)
    /\ f.pc = "break" => IsClientError(f.last_exc.status)
    /\ f.pc = "returned" =>
           /\ f.raised = NotRaised
           /\ f.attempt >= 1
           /\ f.errors[f.attempt] = NoExc
           /\ f.resp.status_code = HTTP_OK
           /\ f.returned \in {f.resp.text, f.resp.json.str}
    /\ f.pc = "raised" =>
           /\ f.returned = <<>>
           /\ \/ f.raised = EmptyResponse(f.attempt) /\ f.errors[f.attempt] = EmptyResponse(f.attempt).wraps
              \/ /\ f.raised = FailedAfterRetries(f.last_exc)
                 /\ f.attempt = REQUESTS_RETRIES + 1 \/ IsClientError(f.last_exc.status)

\* C19: under every interleaving of two calls, the attempt counter, the last
\* error and the outcome of each call are what its own attempts make them,
\* no call makes more than REQUESTS_RETRIES + 1 attempts, a step of one call
\* leaves the locals of the other alone, and REQUESTS_RETRIES is never
\* written.
C19_ConcurrentCallsIndependent ==
    /\ [](AsIfAlone(Frame) /\ AsIfAlone(parked))
    /\ [][/\ REQUESTS_RETRIES' = REQUESTS_RETRIES
          /\ running' = running => parked' = parked
          /\ running' # running => (parked' = Frame /\ Frame' = parked)]_vars

C19_Witness ==
    /\ REQUESTS_RETRIES = 2
    /\ running = 1
    /\ pc = "raised"
    /\ attempt = 3
    /\ parked.pc = "returned"
    /\ parked.attempt = 2

----------------------------------------------------------------------------
(* Termination of call_ollama_sync *)

Terminated == pc \in {"returned", "raised"}

\* C20: the call makes at least 1 and at most REQUESTS_RETRIES + 1 attempts
\* and then terminates, returning a text or raising; the attempt counter
\* never decreases and nothing happens after the call has ended.
C20_BoundedAttemptsThenTerminates ==
    /\ <>Terminated
    /\ [](attempt <= REQUESTS_RETRIES + 1)
    /\ [](Terminated => attempt >= 1)
    /\ [][attempt' >= attempt /\ attempt' <= attempt + 1]_vars
    /\ [][Terminated => UNCHANGED clientVars]_vars

C20_Witness ==
    /\ REQUESTS_RETRIES = 2
    /\ pc = "returned"
    /\ attempt = 3
    /\ Len(sleeps) = 2

----------------------------------------------------------------------------
(* Further properties of call_ollama_sync *)

\* C21: when attempt k answers 200 with extractable text after k - 1 attempts
\* that failed with network errors or 5xx statuses, the call returns that
\* text, raises nothing, has slept once after each failed attempt and not
\* after attempt k, and makes no further attempt or sleep.
C21_FirstSuccessReturnsAtOnce ==
    /\ []((/\ attempt >= 1
           /\ resp.status_code = HTTP_OK
           /\ ExtractText(resp).kind = "return"
           /\ \A i \in 1..(attempt - 1) : IsTransient(errors[i]))
          => (/\ pc = "returned"
              /\ returned = ExtractText(resp).text
              /\ raised = NotRaised
              /\ Len(errors) = attempt
              /\ Len(sleeps) = attempt - 1
              /\ \A j \in 1..Len(sleeps) : sleeps[j].after = j))
    /\ [][pc = "returned" => UNCHANGED <<attempt, returned, raised, errors, sleeps, pc>>]_vars

C21_Witness ==
    /\ REQUESTS_RETRIES = 2
    /\ pc = "returned"
    /\ attempt = 3
    /\ errors[1].kind = "RequestException"
    /\ errors[2].kind = "StatusError"
    /\ returned = <<"t">>
    /\ raised = NotRaised

----------------------------------------------------------------------------
(* Further properties of parse_recommendations *)

\* the records of rs whose title, lower-cased, no earlier record of rs has
FirstOfTheirTitle(rs) ==
    SelectSeq([i \in 1..Len(rs) |-> [at |-> i, rec |-> rs[i]]],
              LAMBDA e : \A m \in 1..(e.at - 1) : LowerStr(rs[m].title) # LowerStr(e.rec.title))

\* C22: for expected >= 1 the result is the first min(expected, d) entries of
\* the order-preserving, case-insensitively deduplicated sequence of all
\* parsed records, d its length.
C22_FirstNOfDeduplicated ==
    (parse_pc = "done" /\ expected >= 1) =>
        LET full == FirstOfTheirTitle(recs)
            kept == IF expected <= Len(full) THEN expected ELSE Len(full)
        IN  unique = [i \in 1..kept |-> full[i].rec]

C22_Witness ==
    /\ parse_pc = "done"
    /\ expected = 2
    /\ Len(recs) = 3
    /\ recs[1].title = <<"a", "b">>
    /\ recs[2].title = <<"A", "B">>
    /\ recs[3].title = <<"b", "a">>
    /\ unique = <<recs[1], recs[3]>>

\* the only line of a one-line text, stripped
OnlyLine == StrippedLines(text)[1]

OneLine == text # <<>> /\ Len(StrippedLines(text)) = 1

\* the length of a leading "<digits>." or "<digits>)", 0 without one
IndexOf(ln) ==
    IF \E d \in 1..(Len(ln) - 1) :
           (\A i \in 1..d : ln[i] \in Digits) /\ ln[d + 1] \in {".", ")"}
    THEN 1 + CHOOSE d \in 1..(Len(ln) - 1) :
                 (\A i \in 1..d : ln[i] \in Digits) /\ ln[d + 1] \in {".", ")"}
    ELSE 0

HasDash(s) == \E i \in 1..Len(s) : s[i] \in Dashes

FirstSeparator(s) == CHOOSE i \in 1..Len(s) : s[i] \in Dashes /\ \A j \in 1..(i - 1) : s[j] \notin Dashes

\* what stands between the index and the first separator, and after it
TitlePart(ln) ==
    LET rest == From(ln, IndexOf(ln) + 1)
    IN  Strip(SubSeq(rest, 1, FirstSeparator(rest) - 1), QuoteChars)

ReasonPart(ln) ==
    LET rest == From(ln, IndexOf(ln) + 1)
    IN  Strip(From(rest, FirstSeparator(rest) + 1), Whitespace)

\* ln is: optional index, a title of at least minTitle characters, a separator, a reason
TitleSeparatorReason(ln, minTitle) ==
    /\ HasDash(From(ln, IndexOf(ln) + 1))
    /\ Len(TitlePart(ln)) >= minTitle
    /\ ReasonPart(ln) # <<>>

\* C23 as claimed: a line with an optional index, a title, a separator and
\* a reason yields the record of the title between index and first
\* separator, quotes and blanks trimmed, and the trimmed text after the
\* separator.
C23_TitleSeparatorReasonRecord ==
    (parse_pc = "done" /\ OneLine /\ TitleSeparatorReason(OnlyLine, 1)) =>
        recs = <<Rec(TitlePart(OnlyLine), ReasonPart(OnlyLine))>>

\* C23 as amended: the same for a title of at least two characters after
\* trimming.
C23_TwoCharacterTitleRecord ==
    (parse_pc = "done" /\ OneLine /\ TitleSeparatorReason(OnlyLine, 2)) =>
        recs = <<Rec(TitlePart(OnlyLine), ReasonPart(OnlyLine))>>

C23_Witness ==
    /\ parse_pc = "done"
    /\ text = <<"2", ")", " ", "A", "B", " ", "-", " ", "z">>
    /\ recs = <<Rec(<<"A", "B">>, <<"z">>)>>

IsText(c) == c \notin Dashes /\ c \notin QuoteChars

\* some separator of ln has text on both of its sides
SeparatesText(ln) ==
    \E i \in 2..(Len(ln) - 1) :
        /\ ln[i] \in Dashes
        /\ \E j \in 1..(i - 1) : IsText(ln[j])
        /\ \E j \in (i + 1)..Len(ln) : IsText(ln[j])

\* C24, on the lines the claim names: a line that begins with a dash, has no
\* leading index and has a dash-like separator between two texts (a bullet
\* such as "- Title -- reason") is split at a separator into title and
\* reason: it yields one record, the title free of separators and the reason
\* not empty.
C24_DashLineSplitAtFirstSeparator ==
    (/\ parse_pc = "done"
     /\ OneLine
     /\ IndexOf(OnlyLine) = 0
     /\ OnlyLine[1] \in Dashes
     /\ SeparatesText(OnlyLine)) =>
        /\ Len(recs) = 1
        /\ ~HasDash(recs[1].title)
        /\ recs[1].reason # <<>>

\* a line without index and without separator
Bare(ln) == IndexOf(ln) = 0 /\ ~HasDash(ln)

TooLong(ln) == Bare(ln) /\ Len(ln) >= BareLineLimit

\* C25: a line without index and without separator becomes a title-only
\* record with empty reason exactly when it is shorter than 60 characters;
\* such a line of 60 characters or more yields nothing, and the records of a
\* text are those of the text without these lines.
C25_BareLineUnderSixty ==
    parse_pc = "done" =>
        /\ (OneLine /\ Bare(OnlyLine)) =>
               IF Len(OnlyLine) < BareLineLimit
               THEN recs = <<Rec(Strip(OnlyLine, QuoteChars), <<>>)>>
               ELSE recs = <<>>
        /\ text # <<>> =>
               recs = ParseLines(SelectSeq(StrippedLines(text), LAMBDA ln : ~TooLong(ln)))

C25_Witness ==
    /\ parse_pc = "done"
    /\ Len(StrippedLines(text)) = 3
    /\ TooLong(StrippedLines(text)[2])
    /\ recs = <<Rec(<<"a", "b">>, <<"x">>), Rec(<<"b", "a">>, <<>>)>>

\* the pattern matches ln with a title of at most one character after trimming
ShortTitleMatch(ln) ==
    /\ PatternMatch(ln).ok
    /\ Len(Strip(PatternMatch(ln).title, QuoteChars)) <= 1

\* C26: a line that matches the title/separator/reason pattern with a title
\* that is empty or one character after trimming yields no record, neither
\* from the pattern nor from a later rule; the records of a text are those of
\* the text without these lines.
C26_ShortTitleLineConsumed ==
    (parse_pc = "done" /\ text # <<>>) =>
        /\ (OneLine /\ ShortTitleMatch(OnlyLine)) => recs = <<>>
        /\ recs = ParseLines(SelectSeq(StrippedLines(text), LAMBDA ln : ~ShortTitleMatch(ln)))

C26_Witness ==
    /\ parse_pc = "done"
    /\ Len(StrippedLines(text)) = 2
    /\ StrippedLines(text)[1] = <<"a", "-", "x">>
    /\ DashMatch(StrippedLines(text)[1]).ok
    /\ Len(recs) = 1
    /\ recs[1].title = Strip(StrippedLines(text)[2], QuoteChars)

(* Further properties of call_ollama_sync, continued *)

\* the attempt made last obtained a response (resp is that response)
Answered == attempt >= 1 /\ errors[attempt].kind # "RequestException"

\* a choices value that holds a string at [0]["text"] or [0]["message"]["content"]
ChoicesHoldText(c) ==
    /\ c.t = "list"
    /\ c.first.t = "dict"
    /\ \/ c.first.text.t = "str"
       \/ c.first.message.t = "dict" /\ c.first.message.content.t = "str"

\* r is a 200 answer whose body parses as JSON, holds no text and is empty
NothingToExtract(r) ==
    /\ r.status_code = HTTP_OK
    /\ r.text = <<>>
    /\ \/ r.json.kind = "other"
       \/ /\ r.json.kind = "dict"
          /\ \A key \in {"text", "response", "generated", "output"} : r.json.obj[key].t # "str"
          /\ ~ChoicesHoldText(r.json.obj.choices)

OnlyExtractErrors == \A k \in 1..Len(errors) : errors[k].kind = "ExtractError"

\* C27: a 200 answer that is JSON without text and with an empty body makes
\* the attempt a failed one, recorded as the extraction error, with no sleep
\* after it and the loop going on while attempts remain; when every attempt
\* ends so the call raises after REQUESTS_RETRIES + 1 attempts, wrapping the
\* extraction error of the last attempt, and has never slept.
C27_NothingExtractedRetriesWithoutSleep ==
    /\ (Answered /\ NothingToExtract(resp)) =>
           /\ errors[attempt] = ExtractError(attempt)
           /\ last_exc = ExtractError(attempt)
           /\ SleepsAfterAttempt(attempt) = {}
           /\ returned = <<>> /\ pc \in {"loop", "raised"}
           /\ attempt <= REQUESTS_RETRIES => pc = "loop"
           /\ pc = "raised" => raised = FailedAfterRetries(ExtractError(attempt))
    /\ (OnlyExtractErrors /\ Len(errors) >= 1) =>
           /\ sleeps = <<>>
           /\ Len(errors) = attempt /\ attempt <= REQUESTS_RETRIES + 1
           /\ pc = "raised" =>
                  /\ attempt = REQUESTS_RETRIES + 1
                  /\ raised = FailedAfterRetries(ExtractError(REQUESTS_RETRIES + 1))

C27_Witness ==
    /\ REQUESTS_RETRIES = 2
    /\ pc = "raised"
    /\ Len(errors) = 3
    /\ OnlyExtractErrors
    /\ NothingToExtract(resp)
    /\ sleeps = <<>>
    /\ raised = FailedAfterRetries(ExtractError(3))

\* r is a 200 answer whose body is not JSON and is empty
EmptyNonJson(r) == r.status_code = HTTP_OK /\ r.json.kind = "invalid" /\ r.text = <<>>

\* C28: a 200 answer whose body is not JSON and is empty ends the call on that
\* attempt with the empty-response ValueError, not wrapped in the
\* after-retries error, whatever number of attempts remains; nothing happens
\* after it.
C28_EmptyBodyRaisesAtOnce ==
    /\ []((Answered /\ EmptyNonJson(resp)) =>
              /\ pc = "raised"
              /\ raised = EmptyResponse(attempt)
              /\ raised # FailedAfterRetries(last_exc)
              /\ raised.type = "ValueError"
              /\ Len(errors) = attempt
              /\ SleepsAfterAttempt(attempt) = {}
              /\ returned = <<>>)
    /\ [][(Answered /\ EmptyNonJson(resp)) =>
              UNCHANGED <<attempt, resp, raised, returned, errors, sleeps, last_exc, pc>>]_vars

C28_Witness ==
    /\ REQUESTS_RETRIES = 2
    /\ attempt = 1
    /\ EmptyNonJson(resp)
    /\ pc = "raised"
    /\ raised = EmptyResponse(1)
    /\ errors = <<EmptyResponse(1).wraps>>

\* r carries a status that is neither 200 nor one of 400..499
OtherStatus(r) == r.status_code # HTTP_OK /\ ~(400 <= r.status_code /\ r.status_code <= 499)

\* C29: an answer with a status that is neither 200 nor in 400..499 makes the
\* attempt a failed one, recorded with its status; while attempts remain the
\* loop goes on after a sleep of attempt * REQUESTS_BACKOFF_S, and after the
\* last attempt the call raises the after-retries error.  A call that
\* returned was answered with status 200.
C29_OnlyOkReturnsOtherStatusesRetry ==
    /\ (Answered /\ OtherStatus(resp)) =>
           /\ errors[attempt] = StatusError(attempt, resp.status_code)
           /\ last_exc = StatusError(attempt, resp.status_code)
           /\ returned = <<>> /\ pc \in {"loop", "raised"}
           /\ attempt <= REQUESTS_RETRIES =>
                  /\ pc = "loop"
                  /\ sleeps # <<>>
                  /\ sleeps[Len(sleeps)] = [after |-> attempt, duration |-> REQUESTS_BACKOFF_MS * attempt]
           /\ attempt > REQUESTS_RETRIES => SleepsAfterAttempt(attempt) = {}
           /\ pc = "raised" =>
                  /\ attempt = REQUESTS_RETRIES + 1
                  /\ raised = FailedAfterRetries(StatusError(attempt, resp.status_code))
    /\ pc = "returned" => (Answered /\ resp.status_code = HTTP_OK)

C29_Witness ==
    /\ REQUESTS_RETRIES = 2
    /\ attempt = 2
    /\ pc = "loop"
    /\ errors = <<StatusError(1, 301), StatusError(2, 204)>>
    /\ resp.status_code = 204
    /\ sleeps = <<[after |-> 1, duration |-> 500], [after |-> 2, duration |-> 1000]>>

(* Further properties of validate_and_clean_likes *)

\* an entry that is not a string, or a string of blanks only
BadEntry(item) == item.t # "str" \/ \A i \in 1..Len(item.v) : item.v[i] \in Whitespace

BadEntries(v) == {i \in 1..Len(v) : BadEntry(v[i])}

\* the number of entries of v that differ after trimming and lower-casing
DistinctCount(v) == Cardinality({LowerStr(Strip(v[i].v, Whitespace)) : i \in 1..Len(v)})

\* C30: a list of more than MAX_LIKES valid entries is rejected as too large
\* whatever the number of its distinct entries, and a list with an entry that
\* is not a string or is blank is rejected for its first such entry whatever
\* its length.
C30_SizeBeforeDedupItemsBeforeSize ==
    validate_pc = "done" =>
        /\ (Len(likes) > MAX_LIKES /\ BadEntries(likes) = {}) =>
               validated = Invalid("too_large", 0)
        /\ BadEntries(likes) # {} =>
               /\ ~validated.ok
               /\ validated.error.kind \in {"not_string", "blank"}
               /\ validated.error.index \in BadEntries(likes)
               /\ \A j \in BadEntries(likes) : validated.error.index <= j
               /\ validated.error.kind = "not_string" <=> likes[validated.error.index].t # "str"

C30_Witness ==
    /\ validate_pc = "done"
    /\ Len(likes) = MAX_LIKES + 1
    /\ BadEntries(likes) = {}
    /\ DistinctCount(likes) = 1
    /\ validated = Invalid("too_large", 0)

====
